---------------------------- MODULE Spec2Model ----------------------------
(***************************************************************************)
(* A model of HetMan/features/variants.py: the mutation tree MuTree (built *)
(* from a table of mutation records, restricted in place by subtree) and   *)
(* the mutation type algebra MuType (construction from a set key, |, &, -, *)
(* ==, <, hash, is_supertype, get_samples).                                *)
(*                                                                         *)
(* Python values are modelled as tagged records:                           *)
(*   None                 [kind |-> "None"]                                *)
(*   a frozenset leaf     [kind |-> "leaf", samps |-> S]                   *)
(*   a MuTree node        [kind |-> "tree", mut_level, depth, child]       *)
(*                        child : branch name -> leaf or MuTree            *)
(*   a MuType             [kind |-> "MuType", cur_level, child]            *)
(*                        child : the dict _child in insertion order, a    *)
(*                        sequence of <<frozenset of categories, None or   *)
(*                        MuType>> with distinct first components          *)
(*   a raised exception   [kind |-> "ValueError"], [kind |-> "TypeError"]  *)
(*                                                                         *)
(* The state is a tree (tree), two MuTypes (a, b), the arguments they were *)
(* constructed from where a specification keeps them (args), the name of   *)
(* the operation that ran last (op) and what it returned (res).            *)
(***************************************************************************)
EXTENDS Integers, Sequences, FiniteSets, TLC

VARIABLES tree, a, b, args, op, res

vars == <<tree, a, b, args, op, res>>

-----------------------------------------------------------------------------
(* Bounds of the model.                                                    *)

\* the largest number of rows of the mutation table
MaxMuts == 2

\* the largest number of entries of a set key given to MuType(...)
MaxKeyLen == 2

\* the largest number of rows of the mutation tables of SpecBuild
MaxBuildMuts == 3

\* the largest min_size given to subtypes, combtypes and treetypes
MaxMinSize == 2

\* the longest tuple given as a key to MuTree.__getitem__
MaxPathLen == 3

\* the largest number of rows of the tables whose trees are restricted
\* while they are read
MaxRaceMuts == 4

\* the largest number of entries of the set keys of SpecNorm
MaxNormLen == 3

Samples == {"S1", "S2"}
Genes == {"KRAS", "TP53"}
Forms == {"Missense", "Nonsense"}

\* a null (NaN) cell of the mutation table
Null == "NaN"

\* the levels argument of MuTree(muts, levels): its default
Levels == <<"Gene", "Form">>

\* cur_level of the MuType built from an empty set key (Python's None)
NoLevel == "None"

-----------------------------------------------------------------------------
(* Python's order on the strings that occur: str.__lt__ is lexicographic.  *)

StrRank ==
    [s \in {"Form", "Gene", "KRAS", "Missense", "Nonsense", "TP53"} |->
        CASE s = "Form" -> 1
          [] s = "Gene" -> 2
          [] s = "KRAS" -> 3
          [] s = "Missense" -> 4
          [] s = "Nonsense" -> 5
          [] s = "TP53" -> 6]

StrLt(s, t) == StrRank[s] < StrRank[t]

NoneV == [kind |-> "None"]

ValueError == [kind |-> "ValueError"]

TypeError == [kind |-> "TypeError"]

SyntaxError == [kind |-> "SyntaxError"]

KeyError == [kind |-> "KeyError"]

AttributeError == [kind |-> "AttributeError"]

\* KeyError("Key has more levels than this MuTree!")
KeyDepthError ==
    [kind |-> "KeyError", msg |-> "Key has more levels than this MuTree!"]

IsNone(v) == v.kind = "None"

IsMuType(v) == v.kind = "MuType"

IsMuTree(t) == t.kind = "tree"

IsLeaf(t) == t.kind = "leaf"

Raised(v) ==
    v.kind \in {"ValueError", "TypeError", "SyntaxError", "KeyError",
                "AttributeError"}

-----------------------------------------------------------------------------
(* MuTree: construction from a table of mutations.                         *)

\* the rows of a mutation table: a DataFrame with columns Sample, Gene, Form
Rows == [Sample : Samples, Gene : Genes \cup {Null}, Form : Forms \cup {Null}]

\* the loop of MuTree.__new__: is there a level among lvls at which some row
\* has a non-null value?
RECURSIVE NewFindsLevel(_, _)
NewFindsLevel(ms, lvls) ==
    IF lvls = <<>> THEN FALSE
    ELSE IF \E r \in ms : r[Head(lvls)] # Null THEN TRUE
    ELSE NewFindsLevel(ms, Tail(lvls))

\* a faulty split_muts: the rows with a null key make a branch of their own
split_mutsWithNull(ms, lvl) ==
    [nm \in {r[lvl] : r \in ms} |-> {r \in ms : r[lvl] = nm}]

\* MuTree.split_muts for a level that is a column of the table:
\* dict(tuple(muts.groupby(lvl_name))); groupby drops the rows with a null key
split_muts(ms, lvl) ==
    [nm \in {r[lvl] : r \in ms} \ {Null} |-> {r \in ms : r[lvl] = nm}]

\* MuTree(muts, levels, depth=...): __new__ decides between a frozenset of
\* the samples and a MuTree, whose __init__ looks for the first level that
\* splits the rows and builds a child for each of its values
RECURSIVE MuTree(_, _, _)
RECURSIVE MuTreeInit(_, _, _)

\* a faulty __init__: mut_level is the first of the levels, levels[0], also
\* when the rows are split at a later one
MuTreeInitAtFirstLevel(ms, lvls_left, depth) ==
    LET n == CHOOSE i \in DOMAIN lvls_left :
                 /\ \E r \in ms : r[lvls_left[i]] # Null
                 /\ \A j \in 1..(i - 1) : \A r \in ms : r[lvls_left[j]] = Null
        splat_muts == split_muts(ms, lvls_left[n])
    IN  [kind |-> "tree", mut_level |-> Head(lvls_left), depth |-> depth,
         child |-> [nm \in DOMAIN splat_muts |->
                      MuTree(splat_muts[nm],
                             SubSeq(lvls_left, n + 1, Len(lvls_left)),
                             depth + 1)]]

\* MuTree.__init__: the loop over the levels left, from the first on
MuTreeInit(ms, lvls_left, depth) ==
    IF lvls_left = <<>>
    THEN [kind |-> "tree", mut_level |-> NoLevel, depth |-> depth,
          child |-> <<>>]
    ELSE LET cur_lvl == Head(lvls_left)
             splat_muts == split_muts(ms, cur_lvl)
         IN  IF DOMAIN splat_muts # {}
             THEN [kind |-> "tree", mut_level |-> cur_lvl, depth |-> depth,
                   child |-> [nm \in DOMAIN splat_muts |->
                                MuTree(splat_muts[nm], Tail(lvls_left),
                                       depth + 1)]]
             ELSE MuTreeInit(ms, Tail(lvls_left), depth)

\* a faulty __new__: rows with one value at the next level become a leaf
MuTreeLeafForOneValue(ms, lvls, depth) ==
    IF /\ NewFindsLevel(ms, lvls)
       /\ Cardinality({r[Head(lvls)] : r \in ms} \ {Null}) # 1
    THEN MuTreeInit(ms, lvls, depth)
    ELSE [kind |-> "leaf", samps |-> {r.Sample : r \in ms}]

MuTree(ms, lvls, depth) ==
    IF NewFindsLevel(ms, lvls)
    THEN MuTreeInit(ms, lvls, depth)
    ELSE [kind |-> "leaf", samps |-> {r.Sample : r \in ms}]

-----------------------------------------------------------------------------
(* MuTree: queries.                                                        *)

\* MuTree.get_samples; a frozenset child contributes itself
RECURSIVE TreeSamples(_)

\* a faulty get_samples: the branch for frozenset children is missing
TreeSamplesNoLeaf(t) ==
    IF IsLeaf(t) THEN {}
    ELSE UNION {TreeSamples(t.child[nm]) : nm \in DOMAIN t.child}

TreeSamples(t) ==
    IF IsLeaf(t) THEN t.samps
    ELSE UNION {TreeSamples(t.child[nm]) : nm \in DOMAIN t.child}

\* MuTree.get_levels
RECURSIVE TreeLevels(_)
TreeLevels(t) ==
    {t.mut_level} \cup
    UNION {TreeLevels(t.child[nm]) :
             nm \in {n \in DOMAIN t.child : IsMuTree(t.child[n])}}

\* MuTree.subtree(samps), with the tree it leaves in self
RECURSIVE subtree(_, _)

\* a faulty subtree: a leaf becomes frozenset(samps) - mut, not mut & samps
subtreeLeafDifference(t, samps) ==
    LET new(nm) ==
            LET mut == t.child[nm]
            IN  IF IsMuTree(mut)
                THEN LET new_samps == TreeSamples(mut) \cap samps
                     IN  IF new_samps # {} THEN subtree(mut, new_samps)
                         ELSE mut
                ELSE LET new_samps == mut.samps \cap samps
                     IN  IF new_samps # {}
                         THEN [kind |-> "leaf", samps |-> samps \ mut.samps]
                         ELSE mut
    IN  [t EXCEPT !.child = [nm \in DOMAIN t.child |-> new(nm)]]

subtree(t, samps) ==
    LET new(nm) ==
            LET mut == t.child[nm]
            IN  IF IsMuTree(mut)
                THEN LET new_samps == TreeSamples(mut) \cap samps
                     IN  IF new_samps # {} THEN subtree(mut, new_samps)
                         ELSE mut
                ELSE LET new_samps == mut.samps \cap samps
                     IN  IF new_samps # {}
                         THEN [kind |-> "leaf", samps |-> new_samps]
                         ELSE mut
    IN  [t EXCEPT !.child = [nm \in DOMAIN t.child |-> new(nm)]]

\* dict order of the branch names of a node: groupby yields them sorted
RECURSIVE SortedNames(_)
SortedNames(N) ==
    IF N = {} THEN <<>>
    ELSE LET mn == CHOOSE c \in N : \A d \in N : c = d \/ StrLt(c, d)
         IN  <<mn>> \o SortedNames(N \ {mn})

\* MuTree.get_samp_count(samps): the dict samp_count, or the KeyError of
\* samp_count[s] for a sample s of a leaf that samps does not hold
RECURSIVE get_samp_count(_, _)
RECURSIVE AddCounts(_, _, _, _)
AddCounts(t, samps, names, samp_count) ==
    IF names = <<>> THEN [kind |-> "dict", count |-> samp_count]
    ELSE LET mut == t.child[Head(names)]
         IN  IF IsMuTree(mut)
             THEN LET new_counts == get_samp_count(mut, samps)
                  IN  IF Raised(new_counts) THEN new_counts
                      ELSE AddCounts(t, samps, Tail(names),
                             [x \in samps |->
                                samp_count[x] + new_counts.count[x]])
             ELSE IF ~(mut.samps \subseteq samps) THEN KeyError
             ELSE AddCounts(t, samps, Tail(names),
                    [x \in samps |->
                       IF x \in mut.samps THEN samp_count[x] + 1
                       ELSE samp_count[x]])

get_samp_count(t, samps) ==
    AddCounts(t, samps, SortedNames(DOMAIN t.child), [x \in samps |-> 0])

\* the keys of __getitem__: a string, or a tuple of strings
StrKey(nm) == [kind |-> "str", val |-> nm]

TupleKey(path) == [kind |-> "tuple", val |-> path]

\* self._child[nm], a KeyError when there is no such branch
ChildAt(t, nm) == IF nm \in DOMAIN t.child THEN t.child[nm] ELSE KeyError

RECURSIVE getitem(_, _)

\* a faulty __getitem__: what is left of the key at a leaf is not looked at
getitemToLeaf(t, key) ==
    IF key.kind = "tuple" /\ key.val = <<>> THEN t
    ELSE IF key.kind = "str" THEN ChildAt(t, key.val)
    ELSE IF IsMuTree(ChildAt(t, key.val[1]))
         THEN getitem(ChildAt(t, key.val[1]), TupleKey(Tail(key.val)))
    ELSE ChildAt(t, key.val[1])

\* MuTree.__getitem__(key)
getitem(t, key) ==
    IF key.kind = "tuple" /\ key.val = <<>> THEN t
    ELSE IF key.kind = "str" THEN ChildAt(t, key.val)
    ELSE IF IsMuTree(ChildAt(t, key.val[1]))
         THEN getitem(ChildAt(t, key.val[1]), TupleKey(Tail(key.val)))
    ELSE IF Raised(ChildAt(t, key.val[1])) THEN KeyError
    ELSE IF Tail(key.val) # <<>> THEN KeyDepthError
    ELSE ChildAt(t, key.val[1])

-----------------------------------------------------------------------------
(* Helpers on sequences and finite sets of numbers.                        *)

Range(s) == {s[i] : i \in DOMAIN s}

Max(S) == CHOOSE x \in S : \A y \in S : y <= x

\* the permutations of 1..n
Perms(n) == {p \in [1..n -> 1..n] : \A i, j \in 1..n : p[i] = p[j] => i = j}

\* the indices of a sequence, in increasing order
Indices(s) == [i \in DOMAIN s |-> i]

-----------------------------------------------------------------------------
(* MuType: the dict _child and the views of it the methods use.            *)

\* the categories of a MuType: the union of the keys of _child
MuCats(m) == UNION {m.child[i][1] : i \in DOMAIN m.child}

\* MuType.is_empty: self._child == {}
is_empty(m) == m.child = <<>>

\* MuType.__iter__: the pairs (category, constraint) of every group, stably
\* sorted by category: pairs of one category keep the order of their groups
RECURSIVE SortedPairs(_)
SortedPairs(P) ==
    IF P = {} THEN <<>>
    ELSE LET mn == CHOOSE p \in P : \A q \in P :
                      \/ p = q
                      \/ StrLt(p[1], q[1])
                      \/ p[1] = q[1] /\ p[2] < q[2]
         IN  <<mn>> \o SortedPairs(P \ {mn})

Iter(m) ==
    LET P == {<<l, i>> : l \in MuCats(m), i \in DOMAIN m.child}
        sorted == SortedPairs({p \in P : p[1] \in m.child[p[2]][1]})
    IN  [n \in DOMAIN sorted |-> <<sorted[n][1], m.child[sorted[n][2]][2]>>]

\* dict(self): of the pairs of one category the last one stays
Dict(m) ==
    [l \in MuCats(m) |->
        m.child[Max({i \in DOMAIN m.child : l \in m.child[i][1]})][2]]

\* == on the values of _child (None or MuType) and MuType.__eq__, which
\* compares the dicts _child: same keys, equal values, whatever the order
RECURSIVE PyEq(_, _)
RECURSIVE MuEq(_, _)
PyEq(v, w) ==
    IF IsNone(v) \/ IsNone(w) THEN IsNone(v) /\ IsNone(w)
    ELSE MuEq(v, w)

MuEq(s, o) ==
    /\ s.cur_level = o.cur_level
    /\ {e[1] : e \in Range(s.child)} = {e[1] : e \in Range(o.child)}
    /\ \A e \in Range(s.child) : \A f \in Range(o.child) :
          e[1] = f[1] => PyEq(e[2], f[2])

-----------------------------------------------------------------------------
(* MuType: construction and the operators |, &, -.                         *)
(* A set key is a sequence (a dict in insertion order) of entries          *)
(* [lvl, membs, ch]: the key (lvl, membs), membs a tuple of categories (a  *)
(* string key k is the tuple (k,) of line 886), and the value ch, None or  *)
(* the MuType that line 889 makes of a nested key.                         *)

\* the dict children of __init__ : tuple -> constraint, as a sequence; a
\* tuple given twice keeps its first place and its last value
children(set_key) ==
    LET firsts == SelectSeq(Indices(set_key),
                     LAMBDA i : \A j \in 1..(i - 1) :
                                   set_key[j].membs # set_key[i].membs)
        last(i) == Max({j \in DOMAIN set_key :
                           set_key[j].membs = set_key[i].membs})
    IN  [n \in DOMAIN firsts |->
            <<set_key[firsts[n]].membs, set_key[last(firsts[n])].ch>>]

\* uniq_ch = set(children.values()): one constraint of each class of ==, in
\* the order the children name them
uniq_ch(chn) ==
    LET firsts == SelectSeq(Indices(chn),
                     LAMBDA i : \A j \in 1..(i - 1) :
                                   ~PyEq(chn[j][2], chn[i][2]))
    IN  [n \in DOMAIN firsts |-> chn[firsts[n]][2]]

\* one element of uniq_vals: the categories of every key whose constraint
\* equals ch, together with ch
uniq_val(chn, ch) ==
    <<UNION {Range(chn[i][1]) : i \in {j \in DOMAIN chn : PyEq(chn[j][2], ch)}},
      ch>>

RECURSIVE MuOr(_, _)
RECURSIVE MuTypeInit(_, _)
RECURSIVE AddChildren(_, _, _)

\* the loop over uniq_vals that fills self._child (lines 905-915), from the
\* dict acc on, [kind |-> "dict", items |-> ...]; an exception raised by |=
\* ends it
AddChildren(acc, vals, n) ==
    IF Raised(acc) \/ n > Len(vals) THEN acc
    ELSE LET val == vals[n][1]
             ch == vals[n][2]
             at == {i \in DOMAIN acc.items : acc.items[i][1] = val}
         IN  IF at # {}
             THEN LET i == CHOOSE j \in at : TRUE
                      old == acc.items[i][2]
                      mrg == IF IsNone(ch) \/ IsNone(old) THEN NoneV
                             ELSE MuOr(old, ch)
                  IN  IF Raised(mrg) THEN mrg
                      ELSE AddChildren(
                             [acc EXCEPT !.items[i] = <<val, mrg>>],
                             vals, n + 1)
             ELSE AddChildren(
                    [acc EXCEPT !.items = Append(@, <<val, ch>>)],
                    vals, n + 1)

\* how many constraints uniq_ch holds for a set key
NumUniq(set_key) == Len(uniq_ch(children(set_key)))

\* MuType(set_key). ord is the order in which the set uniq_ch is iterated, a
\* permutation of 1..NumUniq(set_key): Python fixes it by the hashes
MuTypeInit(set_key, ord) ==
    LET level == {set_key[i].lvl : i \in DOMAIN set_key}
        chn == children(set_key)
        uniq == uniq_ch(chn)
        uniq_vals == [n \in DOMAIN uniq |-> uniq_val(chn, uniq[ord[n]])]
        filled == AddChildren([kind |-> "dict", items |-> <<>>], uniq_vals, 1)
    IN  IF Cardinality(level) > 1 THEN ValueError
        ELSE IF Raised(filled) THEN filled
        ELSE [kind |-> "MuType",
              cur_level |-> IF level = {} THEN NoLevel
                            ELSE CHOOSE l \in level : TRUE,
              child |-> filled.items]

\* every MuType that MuType(set_key) can be
MuTypes(set_key) ==
    {MuTypeInit(set_key, ord) : ord \in Perms(NumUniq(set_key))}

\* the categories of a set in increasing order
RECURSIVE SortedCats(_)
SortedCats(C) ==
    IF C = {} THEN <<>>
    ELSE LET mn == CHOOSE c \in C : \A d \in C : c = d \/ StrLt(c, d)
         IN  <<mn>> \o SortedCats(C \ {mn})

\* MuType(new_key) for the new_key of |, & and -, whose keys are the pairs
\* (level, category). No category is in two groups of the result, so that
\* the order of _child shows nowhere: the model takes the sorted one.
MuTypeOfKey(lvl, new_key) ==
    LET cats == SortedCats(DOMAIN new_key)
        set_key == [n \in DOMAIN cats |->
                      [lvl |-> lvl, membs |-> <<cats[n]>>,
                       ch |-> new_key[cats[n]]]]
    IN  IF \E k \in DOMAIN new_key : Raised(new_key[k])
        THEN CHOOSE e \in {new_key[k] : k \in DOMAIN new_key} : Raised(e)
        ELSE MuTypeInit(set_key, [n \in 1..NumUniq(set_key) |-> n])

\* MuType.__or__
MuOr(s, o) ==
    LET self_dict == Dict(s)
        other_dict == Dict(o)
        new_key ==
            [k \in DOMAIN self_dict \cup DOMAIN other_dict |->
                IF k \notin DOMAIN other_dict THEN self_dict[k]
                ELSE IF k \notin DOMAIN self_dict THEN other_dict[k]
                ELSE IF IsNone(self_dict[k]) \/ IsNone(other_dict[k])
                     THEN NoneV
                ELSE MuOr(self_dict[k], other_dict[k])]
    IN  IF s.cur_level = o.cur_level THEN MuTypeOfKey(s.cur_level, new_key)
        ELSE ValueError

RECURSIVE MuAnd(_, _)

\* a faulty __and__: the categories of self alone are kept as they are
MuAndKeepsSelf(s, o) ==
    LET self_dict == Dict(s)
        other_dict == Dict(o)
        val(k) == IF k \notin DOMAIN other_dict THEN self_dict[k]
                  ELSE IF IsNone(self_dict[k]) THEN other_dict[k]
                  ELSE IF IsNone(other_dict[k]) THEN self_dict[k]
                  ELSE MuAnd(self_dict[k], other_dict[k])
        kept == {k \in DOMAIN self_dict :
                    \/ IsNone(val(k))
                    \/ Raised(val(k))
                    \/ ~is_empty(val(k))}
    IN  IF s.cur_level = o.cur_level
        THEN MuTypeOfKey(s.cur_level, [k \in kept |-> val(k)])
        ELSE ValueError

\* MuType.__and__
MuAnd(s, o) ==
    LET self_dict == Dict(s)
        other_dict == Dict(o)
        both == DOMAIN self_dict \cap DOMAIN other_dict
        val(k) == IF IsNone(self_dict[k]) THEN other_dict[k]
                  ELSE IF IsNone(other_dict[k]) THEN self_dict[k]
                  ELSE MuAnd(self_dict[k], other_dict[k])
        kept == {k \in both :
                    \/ IsNone(self_dict[k]) \/ IsNone(other_dict[k])
                    \/ Raised(val(k))
                    \/ ~is_empty(val(k))}
    IN  IF s.cur_level = o.cur_level
        THEN MuTypeOfKey(s.cur_level, [k \in kept |-> val(k)])
        ELSE ValueError

RECURSIVE MuSub(_, _)

\* a faulty __sub__: the operands of the nested difference are swapped
MuSubSwapsNested(s, o) ==
    LET self_dict == Dict(s)
        other_dict == Dict(o)
        sub_val(k) == MuSub(other_dict[k], self_dict[k])
        recurses(k) == /\ k \in DOMAIN other_dict
                       /\ ~IsNone(other_dict[k])
                       /\ ~IsNone(self_dict[k])
        kept == {k \in DOMAIN self_dict :
                    IF k \in DOMAIN other_dict
                    THEN IF ~IsNone(other_dict[k])
                         THEN IF ~IsNone(self_dict[k])
                              THEN ~IsNone(sub_val(k))
                              ELSE TRUE
                         ELSE FALSE
                    ELSE TRUE}
        new_key == [k \in kept |->
                       IF recurses(k) THEN sub_val(k) ELSE self_dict[k]]
    IN  IF s.cur_level = o.cur_level
        THEN IF kept # {} THEN MuTypeOfKey(s.cur_level, new_key)
             ELSE NoneV
        ELSE IF s.cur_level = NoLevel \/ o.cur_level = NoLevel
             THEN TypeError
        ELSE ValueError

\* a faulty __sub__: a category that self leaves unconstrained is dropped
\* when other constrains it (the else of lines 1138-1140 is missing)
MuSubDropsAny(s, o) ==
    LET self_dict == Dict(s)
        other_dict == Dict(o)
        sub_val(k) == MuSub(self_dict[k], other_dict[k])
        recurses(k) == /\ k \in DOMAIN other_dict
                       /\ ~IsNone(other_dict[k])
                       /\ ~IsNone(self_dict[k])
        kept == {k \in DOMAIN self_dict :
                    IF k \in DOMAIN other_dict
                    THEN IF ~IsNone(other_dict[k])
                         THEN IF ~IsNone(self_dict[k])
                              THEN ~IsNone(sub_val(k))
                              ELSE FALSE
                         ELSE FALSE
                    ELSE TRUE}
        new_key == [k \in kept |->
                       IF recurses(k) THEN sub_val(k) ELSE self_dict[k]]
    IN  IF s.cur_level = o.cur_level
        THEN IF kept # {} THEN MuTypeOfKey(s.cur_level, new_key)
             ELSE NoneV
        ELSE IF s.cur_level = NoLevel \/ o.cur_level = NoLevel
             THEN TypeError
        ELSE ValueError

\* a faulty __sub__: when no category is left, the empty MuType is returned
\* in place of None
MuSubReturnsEmpty(s, o) ==
    LET self_dict == Dict(s)
        other_dict == Dict(o)
        sub_val(k) == MuSub(self_dict[k], other_dict[k])
        recurses(k) == /\ k \in DOMAIN other_dict
                       /\ ~IsNone(other_dict[k])
                       /\ ~IsNone(self_dict[k])
        kept == {k \in DOMAIN self_dict :
                    IF k \in DOMAIN other_dict
                    THEN IF ~IsNone(other_dict[k])
                         THEN IF ~IsNone(self_dict[k])
                              THEN ~IsNone(sub_val(k))
                              ELSE TRUE
                         ELSE FALSE
                    ELSE TRUE}
        new_key == [k \in kept |->
                       IF recurses(k) THEN sub_val(k) ELSE self_dict[k]]
    IN  IF s.cur_level = o.cur_level
        THEN MuTypeOfKey(s.cur_level, new_key)
        ELSE IF s.cur_level = NoLevel \/ o.cur_level = NoLevel
             THEN TypeError
        ELSE ValueError

\* MuType.__sub__; the message of its ValueError concatenates the two
\* levels, which is a TypeError when one of them is None
MuSub(s, o) ==
    LET self_dict == Dict(s)
        other_dict == Dict(o)
        sub_val(k) == MuSub(self_dict[k], other_dict[k])
        recurses(k) == /\ k \in DOMAIN other_dict
                       /\ ~IsNone(other_dict[k])
                       /\ ~IsNone(self_dict[k])
        kept == {k \in DOMAIN self_dict :
                    IF k \in DOMAIN other_dict
                    THEN IF ~IsNone(other_dict[k])
                         THEN IF ~IsNone(self_dict[k])
                              THEN ~IsNone(sub_val(k))
                              ELSE TRUE
                         ELSE FALSE
                    ELSE TRUE}
        new_key == [k \in kept |->
                       IF recurses(k) THEN sub_val(k) ELSE self_dict[k]]
    IN  IF s.cur_level = o.cur_level
        THEN IF kept # {} THEN MuTypeOfKey(s.cur_level, new_key)
             ELSE NoneV
        ELSE IF s.cur_level = NoLevel \/ o.cur_level = NoLevel
             THEN TypeError
        ELSE ValueError

-----------------------------------------------------------------------------
(* MuType: the relations ==, <, is_supertype and the hash.                 *)

RECURSIVE is_supertype(_, _)

\* a faulty is_supertype: a nested constraint of self is taken to cover a
\* category that other leaves unconstrained
is_supertypeOfAny(s, o) ==
    LET self_dict == Dict(s)
        other_dict == Dict(o)
    IN  /\ s.cur_level = o.cur_level
        /\ DOMAIN other_dict \subseteq DOMAIN self_dict
        /\ \A k \in DOMAIN self_dict \cap DOMAIN other_dict :
              (~IsNone(self_dict[k]) /\ ~IsNone(other_dict[k])) =>
                 is_supertype(self_dict[k], other_dict[k])

\* MuType.is_supertype
is_supertype(s, o) ==
    LET self_dict == Dict(s)
        other_dict == Dict(o)
    IN  /\ s.cur_level = o.cur_level
        /\ DOMAIN other_dict \subseteq DOMAIN self_dict
        /\ \A k \in DOMAIN self_dict \cap DOMAIN other_dict :
              ~IsNone(self_dict[k]) =>
                 /\ ~IsNone(other_dict[k])
                 /\ is_supertype(self_dict[k], other_dict[k])

\* the first place at which zip(self, other) holds two constraints that are
\* not ==, or 0
FirstDiff(s, o) ==
    LET it_s == Iter(s)
        it_o == Iter(o)
        diff == {n \in DOMAIN it_s \cap DOMAIN it_o :
                    ~PyEq(it_s[n][2], it_o[n][2])}
    IN  IF diff = {} THEN 0 ELSE CHOOSE n \in diff : \A i \in diff : n <= i

\* does self < other raise? Levels are compared as strings, and None is not
\* ordered with a string
RECURSIVE LtRaises(_, _)
LtRaises(s, o) ==
    IF s.cur_level = o.cur_level
    THEN LET n == FirstDiff(s, o)
             v == Iter(s)[n][2]
             w == Iter(o)[n][2]
         IN  /\ Cardinality(MuCats(s)) = Cardinality(MuCats(o))
             /\ MuCats(s) = MuCats(o)
             /\ n # 0
             /\ ~IsNone(v) /\ ~IsNone(w)
             /\ LtRaises(v, w)
    ELSE s.cur_level = NoLevel \/ o.cur_level = NoLevel

\* MuType.__lt__ where it does not raise. The keys of two dicts are compared
\* by <, which on dict keys is the proper subset
RECURSIVE Lt(_, _)
Lt(s, o) ==
    IF s.cur_level = o.cur_level
    THEN LET self_keys == MuCats(s)
             other_keys == MuCats(o)
         IN  IF Cardinality(self_keys) = Cardinality(other_keys)
             THEN IF self_keys = other_keys
                  THEN LET n == FirstDiff(s, o)
                           v == Iter(s)[n][2]
                           w == Iter(o)[n][2]
                       IN  IF n = 0 THEN FALSE
                           ELSE IF IsNone(v) THEN TRUE
                           ELSE IF IsNone(w) THEN FALSE
                           ELSE Lt(v, w)
                  ELSE self_keys \subseteq other_keys /\ self_keys # other_keys
             ELSE Cardinality(self_keys) < Cardinality(other_keys)
    ELSE StrLt(s.cur_level, o.cur_level)

\* a < b as Python evaluates it: True, False, or a TypeError
LtResult(s, o) ==
    IF LtRaises(s, o) THEN TypeError
    ELSE [kind |-> "bool", val |-> Lt(s, o)]

-----------------------------------------------------------------------------
(* MuType.__hash__. The hashes of the strings are the ones of one Python   *)
(* process (CPython draws them anew for each); the values of the model     *)
(* keep every intermediate result below 2^31.                              *)

StrHash ==
    [s \in {"KRAS", "Missense", "Nonsense", "TP53"} |->
        CASE s = "KRAS" -> 11
          [] s = "Missense" -> 23
          [] s = "Nonsense" -> 38
          [] s = "TP53" -> 52]

\* x ^ y on naturals
RECURSIVE Xor(_, _)
Xor(x, y) ==
    IF x = 0 THEN y
    ELSE IF y = 0 THEN x
    ELSE (((x % 2) + (y % 2)) % 2) + 2 * Xor(x \div 2, y \div 2)

\* (value * 1000007) & 0xFFFFFFFF for 0 <= value < 2^31, as the pair of its
\* upper and lower 16 bits; 1000007 = 15 * 2^16 + 16967
MaskedProduct(value) ==
    LET vh == value \div 65536
        vl == value % 65536
        lo == vl * 16967
        mid == (vh * 16967 + vl * 15) % 65536
    IN  <<((lo \div 65536) + mid) % 65536, lo % 65536>>

\* eval(hex(n)[:-1]) for the n of MaskedProduct: hex(n) without its last
\* digit is n >> 4, and is '0x', which eval rejects, when n < 16
HexCut(n) ==
    IF n[1] = 0 /\ n[2] < 16 THEN SyntaxError
    ELSE [kind |-> "int", val |-> (n[1] * 4096) + (n[2] \div 16)]

RECURSIVE PyHash(_)
RECURSIVE HashLoop(_, _, _)

\* the loop of __hash__ from the n-th pair of iter(self) on
HashLoop(m, n, value) ==
    IF n > Len(Iter(m)) THEN [kind |-> "int", val |-> value]
    ELSE LET k == Iter(m)[n][1]
             v == Iter(m)[n][2]
             cut == HexCut(MaskedProduct(value))
             hv == PyHash(v)
         IN  IF Raised(cut) THEN cut
             ELSE IF Raised(hv) THEN hv
             ELSE HashLoop(m, n + 1,
                    Xor(Xor(value + cut.val, Xor(StrHash[k], hv.val)),
                        Len(m.child)))

\* hash(v) for None or a MuType: MuType.__hash__ starts from 0x163125
PyHash(v) ==
    IF IsNone(v) THEN [kind |-> "int", val |-> 7]
    ELSE LET h == HashLoop(v, 1, 1454373)
         IN  IF Raised(h) THEN h
             ELSE IF h.val = -1 THEN [kind |-> "int", val |-> -2]
             ELSE h

-----------------------------------------------------------------------------
(* MuType.get_samples and get_levels.                                      *)

\* MuType.get_levels
RECURSIVE MuLevels(_)
MuLevels(m) ==
    {m.cur_level} \cup
    UNION {MuLevels(e[2]) : e \in {f \in Range(m.child) : IsMuType(f[2])}}

RECURSIVE MuSamples(_, _)

\* a faulty get_samples: a leaf branch is taken only when the category's
\* nested constraint is None
MuSamplesLeafNeedsAny(m, mtree) ==
    IF m.cur_level = mtree.mut_level
    THEN UNION {LET mut == mtree.child[nm]
                IN  UNION {IF IsNone(e[2])
                           THEN (IF IsLeaf(mut) THEN mut.samps
                                 ELSE TreeSamples(mut))
                           ELSE IF IsLeaf(mut) THEN {}
                           ELSE MuSamples(e[2], mut) :
                             e \in {f \in Range(m.child) : nm \in f[1]}} :
                  nm \in DOMAIN mtree.child}
    ELSE UNION {MuSamples(m, mtree.child[nm]) :
                  nm \in {n \in DOMAIN mtree.child :
                            /\ IsMuTree(mtree.child[n])
                            /\ TreeLevels(mtree.child[n]) \cap MuLevels(m)
                                 # {}}}

\* MuType.get_samples(mtree) for a MuTree mtree
MuSamples(m, mtree) ==
    IF m.cur_level = mtree.mut_level
    THEN UNION {LET mut == mtree.child[nm]
                IN  UNION {IF IsLeaf(mut) THEN mut.samps
                           ELSE IF IsNone(e[2]) THEN TreeSamples(mut)
                           ELSE MuSamples(e[2], mut) :
                             e \in {f \in Range(m.child) : nm \in f[1]}} :
                  nm \in DOMAIN mtree.child}
    ELSE UNION {MuSamples(m, mtree.child[nm]) :
                  nm \in {n \in DOMAIN mtree.child :
                            /\ IsMuTree(mtree.child[n])
                            /\ TreeLevels(mtree.child[n]) \cap MuLevels(m)
                                 # {}}}

\* mtype.get_samples(mtree): a TypeError when mtree is not a MuTree
get_samples(m, mtree) ==
    IF ~IsMuTree(mtree) THEN TypeError
    ELSE [kind |-> "set", samps |-> MuSamples(m, mtree)]

-----------------------------------------------------------------------------
(* MuTree.allkey and MuTree.status. A key (the dict allkey returns) is     *)
(* [kind |-> "key", items |-> f], f a function from the pairs              *)
(* <<level, name>> to None or a nested key.                                *)

Key(f) == [kind |-> "key", items |-> f]

\* {**x, **y}: the items of x and of y, those of y where both have the key
MergeDicts(x, y) ==
    Key([k \in DOMAIN x.items \cup DOMAIN y.items |->
            IF k \in DOMAIN y.items THEN y.items[k] ELSE x.items[k]])

\* the lambda that allkey reduces with: the items of x, of y, and for the
\* keys of both None where x has None, else the nested keys merged, which
\* raises a TypeError when y has None there
AllkeyMerge(x, y) ==
    LET both == DOMAIN x.items \cap DOMAIN y.items
    IN  IF Raised(x) THEN x
        ELSE IF Raised(y) THEN y
        ELSE IF \E k \in both : ~IsNone(x.items[k]) /\ IsNone(y.items[k])
             THEN TypeError
        ELSE Key([k \in DOMAIN x.items \cup DOMAIN y.items |->
                    IF k \in both
                    THEN IF IsNone(x.items[k]) THEN NoneV
                         ELSE MergeDicts(x.items[k], y.items[k])
                    ELSE IF k \in DOMAIN y.items THEN y.items[k]
                    ELSE x.items[k]])

\* MuTree.allkey(levels) for a set of levels
RECURSIVE allkey(_, _)

\* a faulty allkey: the last branch of the node is left out
allkeyWithoutLast(t, levels) ==
    LET names == SortedNames(DOMAIN t.child)
        new_lvls == levels \ {t.mut_level}
    IN  Key([k \in {<<t.mut_level, names[n]>> :
                       n \in 1..(Len(names) - 1)} |->
                IF IsMuTree(t.child[k[2]]) /\ new_lvls # {}
                THEN allkey(t.child[k[2]], new_lvls)
                ELSE NoneV])

allkey(t, levels) ==
    LET names == SortedNames(DOMAIN t.child)
        new_lvls == levels \ {t.mut_level}
        sub(nm) == IF IsMuTree(t.child[nm]) /\ new_lvls # {}
                   THEN allkey(t.child[nm], new_lvls)
                   ELSE NoneV
        one(nm) == IF IsMuTree(t.child[nm]) /\ new_lvls # {}
                   THEN allkey(t.child[nm], new_lvls)
                   ELSE Key([k \in {<<t.mut_level, nm>>} |-> NoneV])
        reduce[n \in 1..Len(names)] ==
            IF n = 1 THEN one(names[1])
            ELSE AllkeyMerge(reduce[n - 1], one(names[n]))
    IN  IF t.mut_level \in levels
        THEN LET new_key ==
                     [k \in {<<t.mut_level, nm>> : nm \in DOMAIN t.child} |->
                         sub(k[2])]
                 bad == {k \in DOMAIN new_key : Raised(new_key[k])}
             IN  IF bad # {} THEN new_key[CHOOSE k \in bad : TRUE]
                 ELSE Key(new_key)
        ELSE IF names = <<>> THEN TypeError
        ELSE reduce[Len(names)]

\* MuType(key) for a key of allkey: nested keys become MuTypes (line 889),
\* keys of several levels raise the ValueError of line 876
RECURSIVE MuTypeOfAllkey(_)
MuTypeOfAllkey(key) ==
    LET level == {k[1] : k \in DOMAIN key.items}
        lvl == IF level = {} THEN NoLevel ELSE CHOOSE l \in level : TRUE
        ch(k) == IF IsNone(key.items[k]) THEN NoneV
                 ELSE MuTypeOfAllkey(key.items[k])
    IN  IF Raised(key) THEN key
        ELSE IF Cardinality(level) > 1 THEN ValueError
        ELSE MuTypeOfKey(lvl, [nm \in {k[2] : k \in DOMAIN key.items} |->
                                  ch(<<lvl, nm>>)])

\* MuTree.status(samples, mtype): for each of the samples whether it is in
\* mtype.get_samples(self), mtype being MuType(self.allkey()) when None
status(t, samples, mtype) ==
    LET mt == IF IsNone(mtype) THEN MuTypeOfAllkey(allkey(t, TreeLevels(t)))
              ELSE mtype
    IN  IF Raised(mt) THEN mt
        ELSE [kind |-> "array",
              val |-> [x \in samples |-> x \in MuSamples(mt, t)]]

-----------------------------------------------------------------------------
(* MuTree.subtypes, combtypes and treetypes. A set of MuTypes that one of  *)
(* them returns is [kind |-> "set", elems |-> S].                          *)

SetOf(S) == [kind |-> "set", elems |-> S]

\* len(branch) for a child of a node: the samples of a leaf, or
\* MuTree.__len__
BranchLen(mut) == Cardinality(TreeSamples(mut))

\* MuType({(lvl, nm): ch})
SingleType(lvl, nm, ch) ==
    MuTypeInit(<<[lvl |-> lvl, membs |-> <<nm>>, ch |-> ch]>>, <<1>>)

\* the pairs of product(self, mtype) that hold the same name twice, as
\* <<nm, btype>>, in the order of the product
Matches(t, mtype) ==
    LET names == SortedNames(DOMAIN t.child)
        it == Iter(mtype)
        prod == [n \in 1..(Len(names) * Len(it)) |->
                    <<names[((n - 1) \div Len(it)) + 1],
                      it[((n - 1) % Len(it)) + 1]>>]
        same == SelectSeq(prod, LAMBDA x : x[1] = x[2][1])
    IN  [n \in DOMAIN same |-> <<same[n][1], same[n][2][2]>>]

\* the first exception among the results of a sequence of calls, or None
FirstRaised(rets) ==
    LET errs == SelectSeq(rets, LAMBDA r : Raised(r))
    IN  IF errs = <<>> THEN NoneV ELSE errs[1]

\* the elements of the sets that a sequence of calls returned
AllElems(rets) == UNION {rets[n].elems : n \in DOMAIN rets}

\* mtype, or MuType(self.allkey()) when it is None
DefaultType(t, mtype) ==
    IF IsNone(mtype) THEN MuTypeOfAllkey(allkey(t, TreeLevels(t))) ELSE mtype

\* isinstance(branch, MuTree) and set(sub_levels) & set(branch.get_levels())
HasLevels(branch, levels) ==
    IsMuTree(branch) /\ levels \cap TreeLevels(branch) # {}

\* MuTree.subtypes(mtype, sub_levels, min_size), sub_levels a set of levels
RECURSIVE subtypes(_, _, _, _)

\* the MuTypes of the branches found, rec holding those of the recursion
\* into each: MuType({(lvl, nm): None}) and MuType({(lvl, nm): rec_mtype})
WrapFound(lvl, found, rec) ==
    IF ~IsNone(FirstRaised(rec)) THEN FirstRaised(rec)
    ELSE SetOf(UNION {{SingleType(lvl, found[n][1], NoneV)} \cup
                      {SingleType(lvl, found[n][1], rec_mtype) :
                         rec_mtype \in rec[n].elems} : n \in DOMAIN found})

\* subtypes where self.mut_level is in sub_levels; found holds the pairs
\* <<nm, btype>> of the branches that have min_size samples
SubtypesHere(t, found, sub_levels, min_size) ==
    WrapFound(t.mut_level, found,
              [n \in DOMAIN found |->
                  IF HasLevels(t.child[found[n][1]], sub_levels)
                  THEN subtypes(t.child[found[n][1]], found[n][2],
                                sub_levels, min_size)
                  ELSE SetOf({})])

\* the recurse_mtypes that have min_size samples in the tree, below holding
\* what the calls for the branches before the first leaf returned: a leaf
\* has no subtypes (AttributeError), and reduce raises a TypeError on an
\* empty list
FilterBelow(t, below, has_leaf, min_size) ==
    IF ~IsNone(FirstRaised(below)) THEN FirstRaised(below)
    ELSE IF has_leaf THEN AttributeError
    ELSE IF below = <<>> THEN TypeError
    ELSE SetOf({x \in AllElems(below) :
                   Cardinality(MuSamples(x, t)) >= min_size})

\* subtypes where self.mut_level is not in sub_levels; all holds the pairs
\* <<nm, btype>> and leaf the places in it of the branches that are leaves
SubtypesBelow(t, all, leaf, sub_levels, min_size) ==
    FilterBelow(t,
                [n \in 1..(IF leaf = <<>> THEN Len(all) ELSE leaf[1] - 1) |->
                    subtypes(t.child[all[n][1]], all[n][2], sub_levels, 1)],
                leaf # <<>>, min_size)

\* subtypes for an mtype that is not None
SubtypesOf(t, mt, all, sub_levels, min_size) ==
    IF Raised(mt) THEN mt
    ELSE IF t.mut_level \in sub_levels
    THEN SubtypesHere(t,
                      SelectSeq(all, LAMBDA x :
                                   BranchLen(t.child[x[1]]) >= min_size),
                      sub_levels, min_size)
    ELSE SubtypesBelow(t, all,
                       SelectSeq(Indices(all),
                                 LAMBDA n : IsLeaf(t.child[all[n][1]])),
                       sub_levels, min_size)

\* Matches for an mtype that may be an exception
MatchesOf(t, mt) == IF Raised(mt) THEN <<>> ELSE Matches(t, mt)

\* subtypes with the mtype it works with
SubtypesFor(t, mt, sub_levels, min_size) ==
    SubtypesOf(t, mt, MatchesOf(t, mt), sub_levels, min_size)

\* a faulty subtypes: min_size is not looked at
subtypesAnySize(t, mtype, sub_levels, min_size) ==
    SubtypesFor(t, DefaultType(t, mtype), sub_levels, 1)

subtypes(t, mtype, sub_levels, min_size) ==
    SubtypesFor(t, DefaultType(t, mtype), sub_levels, min_size)

\* reduce(lambda x, y: x | y, kc) for a tuple kc of MuTypes, given as a set
RECURSIVE ReduceOr(_)
ReduceOr(kc) ==
    LET x == CHOOSE m \in kc : TRUE
        rest == ReduceOr(kc \ {x})
    IN  IF Cardinality(kc) = 1 THEN x
        ELSE IF Raised(rest) THEN rest
        ELSE MuOr(rest, x)

\* the new_set of combtypes that have min_size samples, or the exception
\* that one of the unions raised
FilterCombs(t, new_sets, min_size) ==
    IF \E x \in new_sets : Raised(x)
    THEN CHOOSE x \in new_sets : Raised(x)
    ELSE SetOf({x \in new_sets :
                   Cardinality(MuSamples(x, t)) >= min_size})

\* combtypes from all_subs on
CombsOf(t, all_subs, min_size, comb_sizes) ==
    IF Raised(all_subs) THEN all_subs
    ELSE FilterCombs(t,
                     {ReduceOr(kc) :
                        kc \in {c \in SUBSET all_subs.elems :
                                  Cardinality(c) \in comb_sizes}},
                     min_size)

\* MuTree.combtypes(mtype, sub_levels, min_size, comb_sizes), sub_levels a
\* set of levels and comb_sizes a set of positive numbers
combtypes(t, mtype, sub_levels, min_size, comb_sizes) ==
    CombsOf(t, subtypes(t, mtype, sub_levels, 1), min_size, comb_sizes)

\* the sub_levels argument: None, or a list, or the set that get_levels
\* returns; LevelSet is what `in` and set() make of it
LevelList(l) == [kind |-> "list", val |-> l]

LevelSet(sub_levels) ==
    IF sub_levels.kind = "list" THEN Range(sub_levels.val)
    ELSE sub_levels.val

\* sub_levels, or self.get_levels() when it is None
DefaultLevels(t, sub_levels) ==
    IF IsNone(sub_levels) THEN [kind |-> "set", val |-> TreeLevels(t)]
    ELSE sub_levels

\* MuTree.treetypes(mtype, sub_levels, min_size)
RECURSIVE treetypes(_, _, _, _)

\* MuType({(lvl, nm): tree_mtype}) for what the recursion into each of the
\* branches found returned, together with the combinations combs
WrapTrees(lvl, found, rec, combs) ==
    IF Raised(combs) THEN combs
    ELSE IF ~IsNone(FirstRaised(rec)) THEN FirstRaised(rec)
    ELSE SetOf(combs.elems \cup
               UNION {{SingleType(lvl, found[n][1], tree_mtype) :
                         tree_mtype \in rec[n].elems} : n \in DOMAIN found})

\* range(1, max(2, len(self._child)))
CombSizes(n_child) == 1..(IF n_child > 2 THEN n_child - 1 ELSE 1)

\* treetypes where self.mut_level is in sub_levels; found holds the pairs
\* <<nm, btype>> of the branches to recurse into. sub_levels[0] is looked
\* at for a node with one child, and a set has no sub_levels[0]
TreetypesHere(t, mt, found, sub_levels, min_size) ==
    IF Cardinality(DOMAIN t.child) = 1 /\ sub_levels.kind = "set"
    THEN TypeError
    ELSE WrapTrees(t.mut_level, found,
                   [n \in DOMAIN found |->
                       treetypes(t.child[found[n][1]], found[n][2],
                                 sub_levels, min_size)],
                   IF \/ Cardinality(DOMAIN t.child) > 1
                      \/ t.mut_level = sub_levels.val[1]
                   THEN combtypes(t, mt, {t.mut_level}, min_size,
                                  CombSizes(Cardinality(DOMAIN t.child)))
                   ELSE SetOf({}))

\* treetypes where self.mut_level is not in sub_levels
TreetypesBelow(below) ==
    IF ~IsNone(FirstRaised(below)) THEN FirstRaised(below)
    ELSE SetOf(AllElems(below))

\* treetypes for an mtype and sub_levels that are not None; deeper holds
\* the pairs <<nm, btype>> of the branches that are MuTrees of more than
\* min_size samples with a level of sub_levels
TreetypesOf(t, mt, deeper, sub_levels, min_size) ==
    IF Raised(mt) THEN mt
    ELSE IF t.mut_level \in LevelSet(sub_levels)
    THEN TreetypesHere(t, mt, deeper, sub_levels, min_size)
    ELSE TreetypesBelow([n \in DOMAIN deeper |->
                            treetypes(t.child[deeper[n][1]], deeper[n][2],
                                      sub_levels, min_size)])

\* the pairs of Matches with a branch to recurse into
Deeper(t, all, levels, min_size) ==
    SelectSeq(all, LAMBDA x : /\ HasLevels(t.child[x[1]], levels)
                              /\ BranchLen(t.child[x[1]]) > min_size)

\* treetypes with the mtype and the sub_levels it works with
TreetypesFor(t, mt, sub_levels, min_size) ==
    TreetypesOf(t, mt,
                Deeper(t, MatchesOf(t, mt), LevelSet(sub_levels), min_size),
                sub_levels, min_size)

treetypes(t, mtype, sub_levels, min_size) ==
    TreetypesFor(t, DefaultType(t, mtype), DefaultLevels(t, sub_levels),
                 min_size)

\* MuType.invert(mtree). The first thing it evaluates is mtree.child, an
\* attribute that neither a MuTree (which has _child) nor a frozenset has
invert(m, mtree) == AttributeError

-----------------------------------------------------------------------------
(* The inputs: mutation tables and set keys.                               *)

\* the mutation tables of at most MaxMuts rows
Tables == {ms \in SUBSET Rows : Cardinality(ms) <= MaxMuts}

\* the MuTypes at the level Form that appear as nested constraints
FormTypes ==
    UNION {MuTypes(<<[lvl |-> "Form", membs |-> <<f>>, ch |-> NoneV]>>) :
             f \in Forms}

\* the entries of a set key at the level Gene
GeneEntries ==
    [lvl : {"Gene"},
     membs : {<<"KRAS">>, <<"TP53">>, <<"KRAS", "TP53">>},
     ch : {NoneV} \cup FormTypes]

\* the set keys: dicts of at most MaxKeyLen entries, with distinct keys
SetKeys ==
    {k \in UNION {[1..n -> GeneEntries] : n \in 0..MaxKeyLen} :
        \A i, j \in DOMAIN k : k[i].membs = k[j].membs => i = j}

\* the samples and rows of the larger tables from which SpecBuild builds
BuildSamples == Samples \cup {"S3"}

BuildRows ==
    [Sample : BuildSamples, Gene : Genes \cup {Null}, Form : Forms \cup {Null}]

\* the tables of at most n rows of BuildRows
RECURSIVE TablesUpTo(_)
TablesUpTo(n) ==
    IF n = 0 THEN {{}}
    ELSE LET T == TablesUpTo(n - 1)
         IN  T \cup {t \cup {r} : t \in T, r \in BuildRows}

BuildTables == TablesUpTo(MaxBuildMuts)

-----------------------------------------------------------------------------
(* The trees and MuTypes the program can hold.                             *)

\* the keys given to __getitem__: the names as strings, and the tuples of
\* at most MaxPathLen names
PathKeys ==
    {StrKey(nm) : nm \in Genes \cup Forms} \cup
    {TupleKey(path) :
       path \in UNION {[1..n -> Genes \cup Forms] : n \in 0..MaxPathLen}}

\* MuTree(muts) for every table, with the default levels
Trees == {MuTree(ms, Levels, 0) : ms \in Tables}

\* MuType(set_key) for every set key
Vals == UNION {MuTypes(k) : k \in SetKeys}

-----------------------------------------------------------------------------
(* Spec: a tree and two MuTypes have been built, and one operation of the  *)
(* algebra is applied to them.                                             *)

Init ==
    /\ tree \in Trees
    /\ a \in Vals
    /\ b \in Vals
    /\ args = NoneV
    /\ op = "init"
    /\ res = NoneV

\* a | b
Or ==
    /\ op = "init"
    /\ op' = "or"
    /\ res' = MuOr(a, b)
    /\ UNCHANGED <<tree, a, b, args>>

\* a & b
And ==
    /\ op = "init"
    /\ op' = "and"
    /\ res' = MuAnd(a, b)
    /\ UNCHANGED <<tree, a, b, args>>

\* a - b
Sub ==
    /\ op = "init"
    /\ op' = "sub"
    /\ res' = MuSub(a, b)
    /\ UNCHANGED <<tree, a, b, args>>

\* a.is_supertype(b)
IsSupertype ==
    /\ op = "init"
    /\ op' = "is_supertype"
    /\ res' = [kind |-> "bool", val |-> is_supertype(a, b)]
    /\ UNCHANGED <<tree, a, b, args>>

\* a.get_samples(tree)
GetSamples ==
    /\ op = "init"
    /\ op' = "get_samples"
    /\ res' = get_samples(a, tree)
    /\ UNCHANGED <<tree, a, b, args>>

Next == Or \/ And \/ Sub \/ IsSupertype \/ GetSamples

Spec == Init /\ [][Next]_vars

-----------------------------------------------------------------------------
(* MuType.subkeys. The list it returns holds keys as allkey returns them,  *)
(* each with one item.                                                     *)

\* the lists of a list of lists, one after the other
RECURSIVE Concat(_)
Concat(ss) == IF ss = <<>> THEN <<>> ELSE Head(ss) \o Concat(Tail(ss))

\* {(lvl, i): v}
OneItem(lvl, i, v) == Key([p \in {<<lvl, i>>} |-> v])

\* MuType.subkeys: the groups in the order of _child, the categories of a
\* group in increasing order
RECURSIVE subkeys(_)

\* [{(self.cur_level, i): s} for i in k for s in v.subkeys()]
NestedSubkeys(lvl, k, subs) ==
    Concat([j \in DOMAIN k |->
              [x \in DOMAIN subs |-> OneItem(lvl, k[j], subs[x])]])

\* what one item (k, v) of _child adds to mkeys
GroupSubkeys(lvl, k, v) ==
    IF IsNone(v) THEN [j \in DOMAIN k |-> OneItem(lvl, k[j], NoneV)]
    ELSE NestedSubkeys(lvl, k, subkeys(v))

subkeys(m) ==
    Concat([n \in DOMAIN m.child |->
              GroupSubkeys(m.cur_level, SortedCats(m.child[n][1]),
                           m.child[n][2])])

-----------------------------------------------------------------------------
(* SpecKeys: two MuTypes are built from two set keys, which args keeps,    *)
(* and are compared. One set key builds one MuType: the order of the set   *)
(* uniq_ch is a function of its elements and of the order of insertion.    *)

InitKeys ==
    \E k1, k2 \in SetKeys :
        /\ a \in MuTypes(k1)
        /\ b \in MuTypes(k2)
        /\ k1 = k2 => a = b
        /\ args = [key_a |-> k1, key_b |-> k2]
        /\ tree = NoneV
        /\ op = "init"
        /\ res = NoneV

\* a == b
Equal ==
    /\ op = "init"
    /\ op' = "eq"
    /\ res' = [kind |-> "bool", val |-> MuEq(a, b)]
    /\ UNCHANGED <<tree, a, b, args>>

\* a < b
LessThan ==
    /\ op = "init"
    /\ op' = "lt"
    /\ res' = LtResult(a, b)
    /\ UNCHANGED <<tree, a, b, args>>

\* hash(a), hash(b)
Hash ==
    /\ op = "init"
    /\ op' = "hash"
    /\ res' = [kind |-> "hashes", a |-> PyHash(a), b |-> PyHash(b)]
    /\ UNCHANGED <<tree, a, b, args>>

\* a.subkeys()
Subkeys ==
    /\ op = "init"
    /\ op' = "subkeys"
    /\ res' = [kind |-> "list", val |-> subkeys(a)]
    /\ UNCHANGED <<tree, a, b, args>>

NextKeys == Equal \/ LessThan \/ Hash \/ Subkeys

SpecKeys == InitKeys /\ [][NextKeys]_vars

-----------------------------------------------------------------------------
(* SpecTree: a tree is built from a table, which args keeps, and is        *)
(* restricted by subtree any number of times.                              *)

InitTree ==
    \E ms \in Tables :
        /\ tree = MuTree(ms, Levels, 0)
        /\ args = [muts |-> ms]
        /\ a = NoneV
        /\ b = NoneV
        /\ op = "init"
        /\ res = NoneV

\* tree.subtree(samps). res keeps the argument, the tree before the call and
\* whether the call before this one was a subtree with the same argument
Subtree ==
    \E samps \in SUBSET Samples :
        /\ IsMuTree(tree)
        /\ tree' = subtree(tree, samps)
        /\ op' = "subtree"
        /\ res' = [kind |-> "subtree", samps |-> samps, before |-> tree,
                   again |-> op = "subtree" /\ res.samps = samps]
        /\ UNCHANGED <<a, b, args>>

NextTree == Subtree

SpecTree == InitTree /\ [][NextTree]_vars

-----------------------------------------------------------------------------
(* SpecBuild: a tree is built from a table of up to MaxBuildMuts rows over *)
(* three samples, which args keeps, and is queried.                        *)

InitBuild ==
    \E ms \in BuildTables :
        /\ tree = MuTree(ms, Levels, 0)
        /\ args = [muts |-> ms]
        /\ a = NoneV
        /\ b = NoneV
        /\ op = "init"
        /\ res = NoneV

\* tree.get_samp_count(samps)
GetSampCount ==
    \E samps \in SUBSET BuildSamples :
        /\ op = "init"
        /\ IsMuTree(tree)
        /\ op' = "get_samp_count"
        /\ res' = [kind |-> "get_samp_count", samps |-> samps,
                   ret |-> get_samp_count(tree, samps)]
        /\ UNCHANGED <<tree, a, b, args>>

\* MuType(tree.allkey())
AllKey ==
    /\ op = "init"
    /\ IsMuTree(tree)
    /\ op' = "allkey"
    /\ res' = MuTypeOfAllkey(allkey(tree, TreeLevels(tree)))
    /\ UNCHANGED <<tree, a, b, args>>

\* tree.allkey(levels) for levels that leave out the level of the root
AllKeyBelow ==
    \E levels \in SUBSET Range(Levels) :
        /\ op = "init"
        /\ IsMuTree(tree)
        /\ tree.mut_level \notin levels
        /\ op' = "allkey_below"
        /\ res' = allkey(tree, levels)
        /\ UNCHANGED <<tree, a, b, args>>

\* tree.status(samples)
Status ==
    \E samples \in SUBSET BuildSamples :
        /\ op = "init"
        /\ IsMuTree(tree)
        /\ op' = "status"
        /\ res' = status(tree, samples, NoneV)
        /\ UNCHANGED <<tree, a, b, args>>

\* tree[key]
GetItem ==
    \E key \in PathKeys :
        /\ op = "init"
        /\ IsMuTree(tree)
        /\ op' = "getitem"
        /\ res' = [kind |-> "getitem", key |-> key, ret |-> getitem(tree, key)]
        /\ UNCHANGED <<tree, a, b, args>>

NextBuild == GetSampCount \/ AllKey \/ AllKeyBelow \/ Status \/ GetItem

SpecBuild == InitBuild /\ [][NextBuild]_vars

-----------------------------------------------------------------------------
(* SpecRace: a tree is built from a table; one call tree.subtree(samps)    *)
(* and any number of calls tree.get_samples() run on it, each a sequence   *)
(* of steps on the nodes they share. A step of subtree is the assignment   *)
(* self._child = new_child of one node (line 537), a step of get_samples   *)
(* the reading of one branch of the root (lines 480-486).                  *)

\* a faulty assignment: a leaf that holds some of samps becomes samps
ReplaceChildBySamps(cur, samps) ==
    [cur EXCEPT !.child =
        [nm \in DOMAIN cur.child |->
            IF IsLeaf(cur.child[nm]) /\ cur.child[nm].samps \cap samps # {}
            THEN [kind |-> "leaf", samps |-> samps]
            ELSE cur.child[nm]]]

\* the leaves among the branches of the node restricted to samps where they
\* hold some of them: the new_child that line 537 assigns, the branches that
\* are MuTrees being the objects they were
ReplaceChild(cur, samps) ==
    [cur EXCEPT !.child =
        [nm \in DOMAIN cur.child |->
            IF IsLeaf(cur.child[nm]) /\ cur.child[nm].samps \cap samps # {}
            THEN [kind |-> "leaf", samps |-> cur.child[nm].samps \cap samps]
            ELSE cur.child[nm]]]

\* the states that the node t passes through while t.subtree(samps) runs,
\* one for each assignment to a _child in it
RECURSIVE SubtreeWrites(_, _)
RECURSIVE WritesFrom(_, _, _)

\* the states of a node with the branch nm in each of the states subs
Lifted(cur, nm, subs) ==
    [i \in DOMAIN subs |-> [cur EXCEPT !.child[nm] = subs[i]]]

\* the loop of subtree from the branches names on, cur being the node as
\* the calls mut.subtree(new_samps) made so far have left it
WritesFrom(cur, samps, names) ==
    IF names = <<>> THEN <<ReplaceChild(cur, samps)>>
    ELSE IF /\ IsMuTree(cur.child[Head(names)])
            /\ TreeSamples(cur.child[Head(names)]) \cap samps # {}
         THEN Lifted(cur, Head(names),
                     SubtreeWrites(cur.child[Head(names)],
                         TreeSamples(cur.child[Head(names)]) \cap samps))
              \o WritesFrom([cur EXCEPT !.child[Head(names)] =
                                subtree(@, TreeSamples(@) \cap samps)],
                            samps, Tail(names))
    ELSE WritesFrom(cur, samps, Tail(names))

SubtreeWrites(t, samps) ==
    WritesFrom(t, samps, SortedNames(DOMAIN t.child))

\* the tables of the trees that are restricted while they are read
RaceTables == TablesUpTo(MaxRaceMuts)

\* the call of subtree: the states it has still to write, and whether it
\* has written one
Writer(todo, started) ==
    [kind |-> "writer", todo |-> todo, started |-> started]

\* subtree has written a state and has more to write
WriterBusy == a.started /\ a.todo # <<>>

InitRace ==
    \E ms \in RaceTables, samps \in SUBSET BuildSamples :
        /\ tree = MuTree(ms, Levels, 0)
        /\ IsMuTree(tree)
        /\ args = [samps |-> samps, pre |-> tree,
                   post |-> subtree(tree, samps)]
        /\ a = Writer(SubtreeWrites(tree, samps), FALSE)
        /\ b = NoneV
        /\ op = "init"
        /\ res = NoneV

\* one assignment self._child = new_child of tree.subtree(samps)
Write ==
    /\ a.todo # <<>>
    /\ tree' = Head(a.todo)
    /\ a' = Writer(Tail(a.todo), TRUE)
    /\ b' = IF IsNone(b) THEN b ELSE [b EXCEPT !.during = TRUE]
    /\ op' = "write"
    /\ UNCHANGED <<args, res>>

\* tree.get_samples() starts: iter(self) is over the _child of the root as
\* it is now
ReadStart ==
    /\ IsNone(b)
    /\ b' = [kind |-> "reader", map |-> tree.child,
             names |-> SortedNames(DOMAIN tree.child), samps |-> {},
             during |-> WriterBusy]
    /\ op' = "read_start"
    /\ UNCHANGED <<tree, a, args, res>>

\* get_samples reads one branch of the root: a leaf as the _child it
\* iterates holds it, a MuTree as the node is now
ReadBranch ==
    /\ ~IsNone(b)
    /\ b.names # <<>>
    /\ b' = [b EXCEPT
               !.names = Tail(@),
               !.samps = @ \cup
                   (IF IsLeaf(b.map[Head(b.names)])
                    THEN b.map[Head(b.names)].samps
                    ELSE TreeSamples(tree.child[Head(b.names)])),
               !.during = @ \/ WriterBusy]
    /\ op' = "read_branch"
    /\ UNCHANGED <<tree, a, args, res>>

\* get_samples returns
ReadDone ==
    /\ ~IsNone(b)
    /\ b.names = <<>>
    /\ res' = [kind |-> "read", samps |-> b.samps, during |-> b.during]
    /\ b' = NoneV
    /\ op' = "read_done"
    /\ UNCHANGED <<tree, a, args>>

NextRace == Write \/ ReadStart \/ ReadBranch \/ ReadDone

SpecRace == InitRace /\ [][NextRace]_vars

-----------------------------------------------------------------------------
(* SpecNorm: a MuType is built from a set key whose entries may name the   *)
(* same categories as tuples in either order, with nested constraints of   *)
(* one or two forms, and is combined with a MuType of one entry.           *)

\* the nested constraints: MuType({('Form', f): None}) for a form or for
\* the tuple of both
NormFormTypes ==
    UNION {MuTypes(<<[lvl |-> "Form", membs |-> f, ch |-> NoneV]>>) :
             f \in {<<"Missense">>, <<"Nonsense">>,
                    <<"Missense", "Nonsense">>}}

\* the entries of the set keys
NormEntries ==
    [lvl : {"Gene"},
     membs : {<<"KRAS">>, <<"TP53">>, <<"KRAS", "TP53">>, <<"TP53", "KRAS">>},
     ch : {NoneV} \cup NormFormTypes]

\* the set keys of at most n entries, with distinct keys
NormKeys(n) ==
    {k \in UNION {[1..i -> NormEntries] : i \in 0..n} :
        \A i, j \in DOMAIN k : k[i].membs = k[j].membs => i = j}

InitNorm ==
    \E k1 \in NormKeys(MaxNormLen), k2 \in NormKeys(1) :
        /\ a \in MuTypes(k1)
        /\ b \in MuTypes(k2)
        /\ args = [key_a |-> k1, key_b |-> k2]
        /\ tree = NoneV
        /\ op = "init"
        /\ res = NoneV

NextNorm == Or \/ And \/ Sub

SpecNorm == InitNorm /\ [][NextNorm]_vars

-----------------------------------------------------------------------------
(* SpecEnum: a MuTree and a MuType (or None, for the default) have been    *)
(* built, and the MuTypes of the tree are enumerated, or the MuType is     *)
(* inverted in the tree. res keeps the arguments with what was returned.   *)

\* the sub_levels arguments: the default None, or a list of levels
LevelArgs ==
    {NoneV} \cup
    {LevelList(l) : l \in {<<"Gene">>, <<"Form">>, <<"Gene", "Form">>,
                           <<"Form", "Gene">>}}

\* the set of levels that subtypes works with for an argument sub_levels
LevelsOf(t, sub_levels) ==
    IF IsNone(sub_levels) THEN TreeLevels(t) ELSE LevelSet(sub_levels)

InitEnum ==
    /\ tree \in {t \in Trees : IsMuTree(t)}
    /\ a \in Vals \cup {NoneV}
    /\ b = NoneV
    /\ args = NoneV
    /\ op = "init"
    /\ res = NoneV

\* tree.subtypes(a, sub_levels, min_size)
Subtypes ==
    \E sub_levels \in LevelArgs, min_size \in 1..MaxMinSize :
        /\ op = "init"
        /\ op' = "subtypes"
        /\ res' = [kind |-> "call", sub_levels |-> sub_levels,
                   min_size |-> min_size,
                   ret |-> subtypes(tree, a, LevelsOf(tree, sub_levels),
                                    min_size)]
        /\ UNCHANGED <<tree, a, b, args>>

\* tree.combtypes(a, sub_levels, min_size, comb_sizes)
Combtypes ==
    \E sub_levels \in LevelArgs, min_size \in 1..MaxMinSize,
       comb_sizes \in {{1, 2}, {2}} :
        /\ op = "init"
        /\ op' = "combtypes"
        /\ res' = [kind |-> "call", sub_levels |-> sub_levels,
                   min_size |-> min_size, comb_sizes |-> comb_sizes,
                   ret |-> combtypes(tree, a, LevelsOf(tree, sub_levels),
                                     min_size, comb_sizes)]
        /\ UNCHANGED <<tree, a, b, args>>

\* tree.treetypes(a, sub_levels, min_size)
Treetypes ==
    \E sub_levels \in LevelArgs, min_size \in 1..MaxMinSize :
        /\ op = "init"
        /\ op' = "treetypes"
        /\ res' = [kind |-> "call", sub_levels |-> sub_levels,
                   min_size |-> min_size,
                   ret |-> treetypes(tree, a, sub_levels, min_size)]
        /\ UNCHANGED <<tree, a, b, args>>

\* a.invert(tree)
Invert ==
    /\ op = "init"
    /\ IsMuType(a)
    /\ op' = "invert"
    /\ res' = invert(a, tree)
    /\ UNCHANGED <<tree, a, b, args>>

NextEnum == Subtypes \/ Combtypes \/ Treetypes \/ Invert

SpecEnum == InitEnum /\ [][NextEnum]_vars

-----------------------------------------------------------------------------
(* Properties of the algebra evaluated against a tree, under Spec.         *)

\* the last operation returned a MuType, and tree is a MuTree to evaluate
\* it against
Evaluable == IsMuType(res) /\ IsMuTree(tree)

\* the branches of a MuTree that hold the sample
BranchesOf(t, samp) == {nm \in DOMAIN t.child : samp \in TreeSamples(t.child[nm])}

\* some sample of the tree occurs in several of its branches
SampleInSeveralBranches ==
    \E samp \in Samples : Cardinality(BranchesOf(tree, samp)) > 1

\* C1, as stated: the samples of a & b are exactly the samples of a that
\* are samples of b, whatever the tree.
C1_AndSamplesAreIntersection ==
    (op = "and" /\ Evaluable) =>
        MuSamples(res, tree) = MuSamples(a, tree) \cap MuSamples(b, tree)

\* C1, amended: the samples of a & b are samples of a and of b; a sample
\* that a and b reach through different branches, or through a leaf whose
\* constraints in a and b do not meet, is in both and not in a & b.
C1_AndSamplesWithinIntersection ==
    (op = "and" /\ Evaluable) =>
        MuSamples(res, tree) \subseteq
            MuSamples(a, tree) \cap MuSamples(b, tree)

\* C1's case: a & b names some category, in a tree where a sample occurs
\* in several branches, and a and b share a sample that a & b does not have
C1_Witness ==
    /\ op = "and"
    /\ Evaluable
    /\ SampleInSeveralBranches
    /\ ~is_empty(res)
    /\ MuSamples(res, tree) # MuSamples(a, tree) \cap MuSamples(b, tree)

\* C2, as stated: when a - b is a MuType, its samples are the samples of a
\* that are not samples of b, whatever the tree.
C2_SubSamplesAreDifference ==
    (op = "sub" /\ Evaluable) =>
        MuSamples(res, tree) = MuSamples(a, tree) \ MuSamples(b, tree)

\* C2, amended: when a - b is a MuType, its samples are samples of a.
C2_SubSamplesWithinLeft ==
    (op = "sub" /\ Evaluable) =>
        MuSamples(res, tree) \subseteq MuSamples(a, tree)

\* C2's case: a - b has lost a category of a and has a sample of b, in a
\* tree where a sample occurs in several branches
C2_Witness ==
    /\ op = "sub"
    /\ Evaluable
    /\ SampleInSeveralBranches
    /\ MuCats(res) # MuCats(a)
    /\ MuSamples(res, tree) \cap MuSamples(b, tree) # {}

\* C3: when a | b is a MuType, its samples are the samples of a together
\* with the samples of b, whatever the tree.
C3_OrSamplesAreUnion ==
    (op = "or" /\ Evaluable) =>
        MuSamples(res, tree) = MuSamples(a, tree) \cup MuSamples(b, tree)

\* MuType({('Gene', 'TP53'): None})
TP53Any ==
    MuTypeInit(<<[lvl |-> "Gene", membs |-> <<"TP53">>, ch |-> NoneV]>>,
               <<1>>)

\* MuType({('Gene', 'TP53'): {('Form', 'Missense'): None}})
TP53Missense ==
    MuTypeInit(
        <<[lvl |-> "Gene", membs |-> <<"TP53">>,
           ch |-> MuTypeInit(<<[lvl |-> "Form", membs |-> <<"Missense">>,
                                ch |-> NoneV]>>, <<1>>)]>>,
        <<1>>)

\* C5, as stated: {(Gene,TP53): None} - {(Gene,TP53): {(Form,Missense): None}}
\* is None.
C5_AnyMinusNestedIsNone ==
    (op = "sub" /\ MuEq(a, TP53Any) /\ MuEq(b, TP53Missense)) => IsNone(res)

\* C5, amended: {(Gene,TP53): None} - {(Gene,TP53): {(Form,Missense): None}}
\* is the MuType {(Gene,TP53): None}, the left operand.
C5_AnyMinusNestedIsAny ==
    (op = "sub" /\ MuEq(a, TP53Any) /\ MuEq(b, TP53Missense)) =>
        IsMuType(res) /\ MuEq(res, TP53Any)

\* C5's case: the difference of the two values has been taken
C5_Witness ==
    /\ op = "sub"
    /\ MuEq(a, TP53Any)
    /\ MuEq(b, TP53Missense)

\* C8: the samples a MuType has in a MuTree are samples of the MuTree.
C8_SamplesWithinTree ==
    (op = "get_samples" /\ ~Raised(res)) =>
        res.samps \subseteq TreeSamples(tree)

\* C8's case: a MuType with a nested constraint has some, and not all, of
\* the samples of the tree
C8_Witness ==
    /\ op = "get_samples"
    /\ ~Raised(res)
    /\ res.samps # {}
    /\ res.samps # TreeSamples(tree)
    /\ \E e \in Range(a.child) : IsMuType(e[2])

\* C9: when a.is_supertype(b), the samples of b are samples of a, whatever
\* the tree.
C9_SupertypeHasSamples ==
    (op = "is_supertype" /\ res.val /\ IsMuTree(tree)) =>
        MuSamples(b, tree) \subseteq MuSamples(a, tree)

\* the categories of m, at the level of mtree, whose branch of mtree is a
\* leaf, as the pairs <<category, nested constraint>>
LeafPairs(m, mtree) ==
    {e \in Range(Iter(m)) :
        /\ m.cur_level = mtree.mut_level
        /\ e[1] \in DOMAIN mtree.child
        /\ IsLeaf(mtree.child[e[1]])}

\* C29: when a category of the MuType matches a branch of the tree that is
\* a leaf, get_samples returns the whole leaf whatever the category's nested
\* constraint is: the type of that category alone realizes the same samples
\* with its constraint and with the constraint None.
C29_LeafBranchIgnoresConstraint ==
    (op = "get_samples" /\ ~Raised(res)) =>
        \A e \in LeafPairs(a, tree) :
            /\ tree.child[e[1]].samps \subseteq res.samps
            /\ MuSamples(SingleType(a.cur_level, e[1], e[2]), tree)
                 = MuSamples(SingleType(a.cur_level, e[1], NoneV), tree)
            /\ MuSamples(SingleType(a.cur_level, e[1], e[2]), tree)
                 = tree.child[e[1]].samps

\* C29's case: a category with a nested MuType meets a leaf branch that
\* holds samples
C29_Witness ==
    /\ op = "get_samples"
    /\ ~Raised(res)
    /\ \E e \in LeafPairs(a, tree) :
          /\ IsMuType(e[2])
          /\ tree.child[e[1]].samps # {}
          /\ tree.child[e[1]].samps \subseteq res.samps

-----------------------------------------------------------------------------
(* Properties of ==, < and hash, under SpecKeys.                           *)

\* a comparison that returned True
Holds(r) == ~Raised(r) /\ r.val

\* C4: of two MuTypes that are not equal, exactly one is less than the
\* other.
C4_OrderIsTotal ==
    (op = "lt" /\ ~MuEq(a, b)) =>
        (Holds(res) /\ ~Holds(LtResult(b, a)))
        \/ (~Holds(res) /\ Holds(LtResult(b, a)))

\* the pairs (category, constraint) a set key names
PairsOf(set_key) ==
    {<<c, set_key[i].ch>> : c \in Genes, i \in DOMAIN set_key} \cap
    UNION {Range(set_key[i].membs) \X {set_key[i].ch} : i \in DOMAIN set_key}

\* C10: MuTypes built from set keys that name the same pairs (category,
\* constraint) are equal, have the same hash, and neither is less than the
\* other.
C10_SamePairsSameValue ==
    PairsOf(args.key_a) = PairsOf(args.key_b) =>
        /\ op = "eq" => res.val
        /\ op = "hash" => res.a = res.b
        /\ op = "lt" => ~Raised(res) /\ ~res.val

-----------------------------------------------------------------------------
(* Properties of subtree, under SpecTree.                                  *)

\* C6: after subtree(samps) the samples of the tree are those it had that
\* are in samps.
C6_SubtreeKeepsOnlySamps ==
    op = "subtree" =>
        TreeSamples(tree) = TreeSamples(res.before) \cap res.samps

\* C7: a subtree(samps) that follows a subtree(samps) leaves the tree as it
\* found it.
C7_SubtreeIdempotent ==
    (op = "subtree" /\ res.again) => tree = res.before

\* C7's case: the second of two calls with the same samples, the first of
\* which changed the tree that was built
C7_Witness ==
    /\ op = "subtree"
    /\ res.again
    /\ res.samps # {}
    /\ tree # MuTree(args.muts, Levels, 0)

-----------------------------------------------------------------------------
(* Properties of construction and of the queries of a tree, under          *)
(* SpecBuild.                                                              *)

\* the records of the scenario of C11
C11_Records ==
    {[Sample |-> "S1", Gene |-> "TP53", Form |-> "Missense"],
     [Sample |-> "S2", Gene |-> "TP53", Form |-> "Missense"],
     [Sample |-> "S3", Gene |-> "KRAS", Form |-> "Nonsense"]}

\* a node at the level Form, below the root, with one leaf
FormNode(form, samps) ==
    [kind |-> "tree", mut_level |-> "Form", depth |-> 1,
     child |-> [f \in {form} |-> [kind |-> "leaf", samps |-> samps]]]

\* the tree built from the records has the root level Gene and the branch
\* TP53 is a Form node with the leaf Missense -> {S1, S2}
C11_RootAndTP53 ==
    /\ IsMuTree(tree)
    /\ tree.mut_level = "Gene"
    /\ DOMAIN tree.child = {"KRAS", "TP53"}
    /\ tree.child["TP53"] = FormNode("Missense", {"S1", "S2"})

\* C11, as stated: in the tree built from the records the branch KRAS is
\* directly the leaf {S3}, with no Form node in between.
C11_KrasIsLeaf ==
    args.muts = C11_Records =>
        /\ C11_RootAndTP53
        /\ tree.child["KRAS"] = [kind |-> "leaf", samps |-> {"S3"}]

\* C11, amended: in the tree built from the records the branch KRAS is a
\* Form node with the single leaf Nonsense -> {S3}, as the branch TP53 is a
\* Form node with the single leaf Missense -> {S1, S2}.
C11_KrasIsFormNode ==
    args.muts = C11_Records =>
        /\ C11_RootAndTP53
        /\ tree.child["KRAS"] = FormNode("Nonsense", {"S3"})

\* C11's case: the tree has been built from the records
C11_Witness ==
    /\ args.muts = C11_Records
    /\ IsMuTree(tree)
    /\ TreeSamples(tree) = {"S1", "S2", "S3"}

\* C18: MuType(tree.allkey()) has every sample of the tree, and status
\* without a type tells for each sample whether it is in the tree.
C18_AllkeyIsUniversal ==
    /\ op = "allkey" =>
          IsMuType(res) /\ MuSamples(res, tree) = TreeSamples(tree)
    /\ op = "status" =>
          /\ ~Raised(res)
          /\ \A x \in DOMAIN res.val : res.val[x] = (x \in TreeSamples(tree))

\* C18's case: status has answered True for one sample and False for
\* another, on a tree that has a leaf and a node below the root
C18_Witness ==
    /\ op = "status"
    /\ ~Raised(res)
    /\ \E x, y \in DOMAIN res.val : res.val[x] /\ ~res.val[y]
    /\ \E n, m \in DOMAIN tree.child :
          IsMuTree(tree.child[n]) /\ IsLeaf(tree.child[m])

\* the number of leaves of a tree that hold the sample
RECURSIVE CountLeaves(_, _)
CountLeaves(t, x) ==
    IF IsLeaf(t) THEN IF x \in t.samps THEN 1 ELSE 0
    ELSE LET names == SortedNames(DOMAIN t.child)
             sum[n \in 0..Len(names)] ==
                 IF n = 0 THEN 0
                 ELSE sum[n - 1] + CountLeaves(t.child[names[n]], x)
         IN  sum[Len(names)]

\* C19: get_samp_count(samps) returns, without an error, for each sample of
\* samps the number of leaves of the tree that hold it.
C19_CountsQueriedSamples ==
    op = "get_samp_count" =>
        /\ ~Raised(res.ret)
        /\ \A x \in res.samps : res.ret.count[x] = CountLeaves(tree, x)

-----------------------------------------------------------------------------
(* Properties of the enumeration of MuTypes, under SpecEnum.               *)

\* what a call that returned a set of MuTypes returned
Returned(r) == IF r.ret.kind = "set" THEN r.ret.elems ELSE {}

\* C12: every MuType that subtypes or combtypes returns has at least
\* min_size samples in the tree it was enumerated from.
C12_EnumeratedHaveMinSize ==
    op \in {"subtypes", "combtypes"} =>
        \A x \in Returned(res) :
            Cardinality(MuSamples(x, tree)) >= res.min_size

\* combtypes returned a union of two branches that have min_size samples
\* together, and neither has alone
C12_Witness ==
    /\ op = "combtypes"
    /\ res.min_size = 2
    /\ Returned(res) # {}
    /\ \A nm \in DOMAIN tree.child : BranchLen(tree.child[nm]) < 2

\* C13: every MuType that subtypes returns for a given mtype is a subset of
\* it, mtype.is_supertype(t), whatever the nested constraints of mtype.
C13_SubtypesWithinType ==
    (op = "subtypes" /\ IsMuType(a)) =>
        \A x \in Returned(res) : is_supertype(a, x)

\* C14: at a node whose level is requested, treetypes for the default type
\* returns the union of all the branches of the node when that union has
\* min_size samples.
C14_UnionOfAllBranches ==
    (/\ op = "treetypes"
     /\ IsNone(a)
     /\ tree.mut_level \in LevelsOf(tree, res.sub_levels)
     /\ BranchLen(tree) >= res.min_size) =>
        \E x \in Returned(res) :
            /\ x.cur_level = tree.mut_level
            /\ Dict(x) = [nm \in DOMAIN tree.child |-> NoneV]

\* r is the complement of the MuType m within the branches of the node t:
\* the branches that are no category of m with None, and the branches on
\* which m has a nested constraint and t a node with the complement of that
\* constraint within the node
RECURSIVE IsComplement(_, _, _)
IsComplement(r, m, t) ==
    /\ r.cur_level = m.cur_level
    /\ MuCats(r) = (DOMAIN t.child \ MuCats(m)) \cup
                   {k \in DOMAIN t.child \cap MuCats(m) :
                      ~IsNone(Dict(m)[k]) /\ IsMuTree(t.child[k])}
    /\ \A k \in MuCats(r) :
          IF k \notin MuCats(m) THEN IsNone(Dict(r)[k])
          ELSE /\ ~IsNone(Dict(r)[k])
               /\ IsComplement(Dict(r)[k], Dict(m)[k], t.child[k])

\* C20: a.invert(tree) returns the complement of a within the branches of
\* the tree.
C20_InvertIsComplement ==
    op = "invert" => (IsMuType(res) /\ IsComplement(res, a, tree))

-----------------------------------------------------------------------------
(* Properties of the operations and relations of MuTypes, under Spec.      *)

\* the category k of x does not survive x - y: y has it with None, or both
\* have a nested constraint for it and the difference of these is None
Cancelled(x, y, k) ==
    /\ k \in MuCats(y)
    /\ \/ IsNone(Dict(y)[k])
       \/ /\ ~IsNone(Dict(x)[k])
          /\ IsNone(MuSub(Dict(x)[k], Dict(y)[k]))

\* both x and y have a nested constraint for the category k
BothNested(x, y, k) ==
    /\ k \in MuCats(x) \cap MuCats(y)
    /\ ~IsNone(Dict(x)[k])
    /\ ~IsNone(Dict(y)[k])

C16_LevelMismatchIsValueError ==
    (op \in {"or", "and", "sub"} /\ a.cur_level # b.cur_level) =>
        res = ValueError

\* x and y are of one level, and every category of y is a category of x
\* that x leaves unconstrained, or for which both have a nested constraint,
\* that of x covering that of y
RECURSIVE Covers(_, _)
Covers(x, y) ==
    /\ x.cur_level = y.cur_level
    /\ \A k \in MuCats(y) :
          /\ k \in MuCats(x)
          /\ \/ IsNone(Dict(x)[k])
             \/ /\ ~IsNone(Dict(y)[k])
                /\ Covers(Dict(x)[k], Dict(y)[k])

Survives(x, y, k) ==
    \/ IsNone(Dict(x)[k])
    \/ IsNone(Dict(y)[k])
    \/ ~is_empty(MuAnd(Dict(x)[k], Dict(y)[k]))

\* a & b for two MuTypes of one level without a category that survives is
\* the empty MuType, whose level is None
AndWithoutSurvivorIsEmpty ==
    (/\ op = "and"
     /\ a.cur_level = b.cur_level
     /\ \A k \in MuCats(a) \cap MuCats(b) : ~Survives(a, b, k)) =>
        /\ IsMuType(res)
        /\ is_empty(res)
        /\ res.cur_level = NoLevel

\* |, & and - of the empty MuType and a MuType that is not empty, either
\* way round, raise the ValueError of the mismatch of the levels
EmptyIsNotClosed ==
    (/\ op \in {"or", "and", "sub"}
     /\ is_empty(a) # is_empty(b)) =>
        res = ValueError

\* C27: the intersection of two MuTypes of one level without a surviving
\* category is the empty MuType of level None, and |, & and - of the empty
\* MuType and one that is not empty fail with the error of the mismatch of
\* the levels.
C27_EmptyTypeOutsideAlgebra ==
    AndWithoutSurvivorIsEmpty /\ EmptyIsNotClosed

\* x and y are both results, and are equal as MuTypes
SameType(x, y) == ~Raised(x) /\ ~Raised(y) /\ MuEq(x, y)

\* (a | b) | c == a | (b | c) wherever both sides are defined
OrIsAssociative ==
    \A c \in Vals :
        LET bc == MuOr(b, c)
            left == MuOr(res, c)
            right == IF Raised(bc) THEN bc ELSE MuOr(a, bc)
        IN  (~Raised(left) /\ ~Raised(right)) => MuEq(left, right)

\* C30: on MuTypes of one level, where the results are defined, | is
\* commutative, associative and idempotent and & is commutative and
\* idempotent, with == as the equality.
C30_AlgebraLaws ==
    /\ (op = "or" /\ ~Raised(res)) =>
          /\ SameType(res, MuOr(b, a))
          /\ OrIsAssociative
          /\ (a = b => MuEq(res, a))
    /\ (op = "and" /\ ~Raised(res)) =>
          /\ SameType(res, MuAnd(b, a))
          /\ (a = b => MuEq(res, a))

-----------------------------------------------------------------------------
(* Properties of the construction of MuTypes and of subkeys, under         *)
(* SpecKeys.                                                               *)

\* a key names one category, with None or with a key that is atomic
RECURSIVE IsAtomic(_)
IsAtomic(key) ==
    /\ Cardinality(DOMAIN key.items) = 1
    /\ \A p \in DOMAIN key.items :
          IsNone(key.items[p]) \/ IsAtomic(key.items[p])

\* reduce(lambda x, y: x | y, [MuType(k) for k in keys]) for a list of keys
\* that is not empty
RECURSIVE UnionOfKeys(_)
UnionOfKeys(keys) ==
    IF Len(keys) = 1 THEN MuTypeOfAllkey(keys[1])
    ELSE LET rest == UnionOfKeys(SubSeq(keys, 1, Len(keys) - 1))
         IN  IF Raised(rest) THEN rest
             ELSE MuOr(rest, MuTypeOfAllkey(keys[Len(keys)]))

\* some category of the MuType is in several groups of it
HasOverlap(m) ==
    \E i, j \in DOMAIN m.child :
        i # j /\ m.child[i][1] \cap m.child[j][1] # {}

\* C21: the keys that a.subkeys() returns are atomic, one category at each
\* level, and the union of the MuTypes built from them is equal to a.
C21_SubkeysUnionIsSelf ==
    (op = "subkeys" /\ ~is_empty(a)) =>
        /\ \A n \in DOMAIN res.val : IsAtomic(res.val[n])
        /\ IsMuType(UnionOfKeys(res.val))
        /\ MuEq(UnionOfKeys(res.val), a)

\* the union of the constraints of the groups of the MuType that hold the
\* category: None when one of them is None
GroupUnion(m, c) ==
    LET chs == {m.child[i][2] :
                  i \in {j \in DOMAIN m.child : c \in m.child[j][1]}}
    IN  IF \E x \in chs : IsNone(x) THEN NoneV ELSE ReduceOr(chs)

\* C26: a MuType built from a set key that names a category in two groups
\* with different constraints constrains the category, in dict(self), by
\* the union of the two, whatever the order in which the groups were made.
C26_OverlapIsUnion ==
    \A c \in MuCats(a) : PyEq(Dict(a)[c], GroupUnion(a, c))

-----------------------------------------------------------------------------
(* Properties of the lookup and of the construction of trees, under        *)
(* SpecBuild.                                                              *)

\* following the names of a path from a node: the node or leaf reached, the
\* error of a path that goes on below a leaf, or nothing (None) when a name
\* of the path is no branch
RECURSIVE Follow(_, _)
Follow(node, path) ==
    IF path = <<>> THEN node
    ELSE IF IsLeaf(node) THEN KeyDepthError
    ELSE IF Head(path) \notin DOMAIN node.child THEN NoneV
    ELSE Follow(node.child[Head(path)], Tail(path))

\* C22: tree[key] for a tuple key whose names are branches is what
\* following the names from the root reaches, the tree itself for the empty
\* key, and the KeyError of a key with too many levels when the key goes on
\* below a leaf.
C22_LookupFollowsPath ==
    (/\ op = "getitem"
     /\ res.key.kind = "tuple"
     /\ ~IsNone(Follow(tree, res.key.val))) =>
        res.ret = Follow(tree, res.key.val)

\* C22's case: a key of three names has met a leaf before its end
C22_Witness ==
    /\ op = "getitem"
    /\ Len(res.key.val) = 3
    /\ res.ret = KeyDepthError

-----------------------------------------------------------------------------
(* Properties of get_samples run together with subtree, under SpecRace.    *)

\* the samples of the tree before and after the call of subtree
PreAndPost == {TreeSamples(args.pre), TreeSamples(args.post)}

\* C23: a get_samples() during which subtree neither was between two of its
\* assignments nor made one returns the samples of the tree as it was
\* before the call of subtree or as it is after it.
C23_ExclusiveReadIsPreOrPost ==
    (op = "read_done" /\ ~res.during) => res.samps \in PreAndPost

\* C23's case: a get_samples() that ran together with subtree has returned
\* a set that is neither
C23_Witness ==
    /\ op = "read_done"
    /\ res.during
    /\ res.samps \notin PreAndPost

\* the places in lvls of the levels at which some row has a value
Splitting(ms, lvls) == {i \in DOMAIN lvls : \E r \in ms : r[lvls[i]] # Null}

\* node is what the claim says is built from the rows ms with the levels
\* lvls at the depth: a leaf of the samples of the rows when no level has a
\* value, else a node at the first level that has one, with a branch for
\* each value, built from the rows of that value with the levels after it,
\* one deeper
RECURSIVE WellBuilt(_, _, _, _)
WellBuilt(node, ms, lvls, depth) ==
    IF Splitting(ms, lvls) = {}
    THEN node = [kind |-> "leaf", samps |-> {r.Sample : r \in ms}]
    ELSE LET n == CHOOSE i \in Splitting(ms, lvls) :
                      \A j \in Splitting(ms, lvls) : i <= j
         IN  /\ IsMuTree(node)
             /\ node.mut_level = lvls[n]
             /\ node.depth = depth
             /\ DOMAIN node.child = {r[lvls[n]] : r \in ms} \ {Null}
             /\ \A nm \in DOMAIN node.child :
                   WellBuilt(node.child[nm], {r \in ms : r[lvls[n]] = nm},
                             SubSeq(lvls, n + 1, Len(lvls)), depth + 1)

\* C24: the tree built from a table has each node at the first of the
\* levels left to it that has a value in its rows, every child one deeper
\* with the levels after that one, and a leaf of the samples exactly where
\* no level is left or none has a value; without any value it is a leaf.
C24_TreeIsWellBuilt == WellBuilt(tree, args.muts, Levels, 0)

\* C24's case: the level Gene, null in every row, has been skipped, and the
\* root is at the level Form
C24_Witness ==
    /\ IsMuTree(tree)
    /\ tree.mut_level = "Form"
    /\ \E r \in args.muts : r.Sample = "S3"
    /\ Cardinality(DOMAIN tree.child) = 2

\* the samples of the rows that have a value at every level at which their
\* rows are split, from the first level of lvls that has a value on
RECURSIVE Placed(_, _)
Placed(ms, lvls) ==
    IF Splitting(ms, lvls) = {} THEN {r.Sample : r \in ms}
    ELSE LET n == CHOOSE i \in Splitting(ms, lvls) :
                      \A j \in Splitting(ms, lvls) : i <= j
         IN  UNION {Placed({r \in ms : r[lvls[n]] = nm},
                           SubSeq(lvls, n + 1, Len(lvls))) :
                      nm \in {r[lvls[n]] : r \in ms} \ {Null}}

\* C28: a row that is null at the level a node splits on is in no branch of
\* the node: the samples of the tree are those of the rows that have a value
\* at every level at which their rows are split.
C28_NullRowsAreDropped ==
    TreeSamples(tree) = Placed(args.muts, Levels)

\* C28's case: the tree has samples, and fewer than the table it was built
\* from, below the root as well
C28_Witness ==
    /\ IsMuTree(tree)
    /\ \E r \in args.muts : r.Gene = Null /\ r.Sample \notin TreeSamples(tree)
    /\ \E r \in args.muts :
          /\ r.Gene # Null
          /\ r.Form = Null
          /\ r.Sample \notin TreeSamples(tree)

-----------------------------------------------------------------------------
(* Properties of the form of the MuTypes built, under SpecNorm.            *)

\* no two groups of the MuType have equal constraints, nor of any of its
\* nested constraints
RECURSIVE NormalForm(_)
NormalForm(m) ==
    /\ \A i, j \in DOMAIN m.child :
          i # j => ~PyEq(m.child[i][2], m.child[j][2])
    /\ \A i \in DOMAIN m.child :
          IsNone(m.child[i][2]) \/ NormalForm(m.child[i][2])

\* C25: in the MuTypes that MuType(set_key) builds and in those that |, &
\* and - return, no two groups have equal constraints, at any depth.
C25_NormalForm ==
    /\ NormalForm(a)
    /\ NormalForm(b)
    /\ IsMuType(res) => NormalForm(res)

=============================================================================
